---- MODULE Spec2Model ----
(***************************************************************************)
(* A model of the EPL stats assistant: FootballStatsRetriever              *)
(* (src/retrieval.py) and StatsAssistant with its session cache            *)
(* (src/app.py).                                                           *)
(*                                                                         *)
(* Python strings on which the code works character by character (team    *)
(* names, the minutes text, the classifier's reply) are sequences of       *)
(* one-character strings.  Strings the code only compares or uses as       *)
(* dictionary keys (stat types, column labels) are TLA+ strings.           *)
(* Numbers are fixed-point in hundredths (field h), tagged with their      *)
(* Python type.  An f-string is a record of its template and arguments.    *)
(***************************************************************************)
EXTENDS Integers, Sequences, FiniteSets, TLC

VARIABLES
    df,          \* the DataFrame handed to FootballStatsRetriever.__init__
    classifier,  \* the remote classifier: question -> content of its reply
    llm_cache,   \* st.session_state.llm_cache
    row_cache,   \* FootballStatsRetriever._cache
    last         \* the last call made and what it returned

vars == <<df, classifier, llm_cache, row_cache, last>>

----------------------------------------------------------------------------
(* Bounds of the model *)

MaxTeams == 2

NumQuestions == 2

HashSpace == 3

----------------------------------------------------------------------------
(* Python strings: str.lower, str.strip, str.replace(',', ''), int(str) *)

UpperLetters ==
    <<"A","B","C","D","E","F","G","H","I","J","K","L","M",
      "N","O","P","Q","R","S","T","U","V","W","X","Y","Z">>

LowerLetters ==
    <<"a","b","c","d","e","f","g","h","i","j","k","l","m",
      "n","o","p","q","r","s","t","u","v","w","x","y","z">>

Digits == <<"0","1","2","3","4","5","6","7","8","9">>

Whitespace == {" "}

\* str.lower on one character: the lower-case letter of an upper-case letter.
UpperToLower ==
    [c \in {UpperLetters[i] : i \in DOMAIN UpperLetters} |->
        LowerLetters[CHOOSE i \in DOMAIN UpperLetters : UpperLetters[i] = c]]

LowerChar(c) == IF c \in DOMAIN UpperToLower THEN UpperToLower[c] ELSE c

Lower(s) == [i \in 1..Len(s) |-> LowerChar(s[i])]

Strip(s) ==
    LET keep == {i \in 1..Len(s) : s[i] \notin Whitespace}
    IN  IF keep = {} THEN <<>>
        ELSE SubSeq(s, CHOOSE i \in keep : \A j \in keep : i <= j,
                       CHOOSE i \in keep : \A j \in keep : j <= i)

RemoveCommas(s) == SelectSeq(s, LAMBDA c : c # ",")

DigitValue == [c \in {Digits[i] : i \in DOMAIN Digits} |->
                  (CHOOSE i \in DOMAIN Digits : Digits[i] = c) - 1]

IsDigit(c) == c \in DOMAIN DigitValue

DigitVal(c) == DigitValue[c]

RECURSIVE DigitsValue(_)
DigitsValue(s) ==
    IF s = <<>> THEN 0
    ELSE 10 * DigitsValue(SubSeq(s, 1, Len(s) - 1)) + DigitVal(s[Len(s)])

----------------------------------------------------------------------------
(* Python values, exceptions and message strings *)

PyNone == [t |-> "NoneType"]

PyInt(n) == [t |-> "int", h |-> 100 * n]

PyFloat(h) == [t |-> "float", h |-> h]

PyStr(text) == [t |-> "str", s |-> text]

Return(v) == [exc |-> FALSE, val |-> v]

Raise(text) == [exc |-> TRUE, err |-> text]

\* A formatted string: the template `kind' filled with the team name or text
\* `arg', the list of names `names' (joined by ', '), the label `lit' and the
\* number `num'; `prefix' is text put in front of an exception's message.
Text(kind, arg, names, lit, num) ==
    [prefix |-> "", kind |-> kind, arg |-> arg, names |-> names, lit |-> lit,
     num |-> num]

\* A plain string with the characters `chars'.
Chars(chars) == Text("{}", chars, <<>>, "", 0)

TeamNotFoundMsg(team_name, squads) ==
    Text("Team '{}' not found. Available teams: {}", team_name, squads, "", 0)

MultipleTeamsMsg(team_name, squads) ==
    Text("Multiple teams match '{}': {}", team_name, squads, "", 0)

UnknownStatMsg(stat_type) ==
    Text("Unknown stat type: {}", <<>>, <<>>, stat_type, 0)

ColumnNotFoundMsg(column) ==
    Text("Column '{}' not found in DataFrame", <<>>, <<>>, column, 0)

InvalidLiteralMsg(chars) ==
    Text("invalid literal for int() with base 10: '{}'", chars, <<>>, "", 0)

UnterminatedGroupMsg(position) ==
    Text("missing ), unterminated subpattern at position {}", <<>>, <<>>, "",
         position)

NoneOperandMsg ==
    Text("unsupported operand type(s) for /: 'NoneType' and 'int'",
         <<>>, <<>>, "", 0)

\* int(s) for s over digits, '-', '+', blanks and characters int() rejects.
PyIntOfStr(s) ==
    LET body == Strip(s)
        signed == body # <<>> /\ body[1] \in {"-", "+"}
        digits == IF signed THEN Tail(body) ELSE body
    IN  IF digits # <<>> /\ \A i \in 1..Len(digits) : IsDigit(digits[i])
        THEN Return(IF signed /\ body[1] = "-"
                    THEN 0 - DigitsValue(digits) ELSE DigitsValue(digits))
        ELSE Raise(InvalidLiteralMsg(s))

\* int(x) for a number x: truncation towards zero.
PyIntOfNumber(v) ==
    IF v.h >= 0 THEN v.h \div 100 ELSE 0 - ((0 - v.h) \div 100)

----------------------------------------------------------------------------
(* pandas Series.str.contains(pat, case=False, na=False): regex=True is the  *)
(* default, so pat is compiled as a regular expression with re.IGNORECASE   *)
(* and searched in each name.  Patterns here are over letters, blanks, '.'  *)
(* (any character) and '(' (which opens a group that is never closed).      *)

RegexCompiles(pat) == \A i \in 1..Len(pat) : pat[i] # "("

RegexErrorPosition(pat) ==
    (CHOOSE i \in 1..Len(pat) :
        pat[i] = "(" /\ \A j \in (i + 1)..Len(pat) : pat[j] # "(") - 1

RegexMatchesAt(pat, s, off) ==
    \A i \in 1..Len(pat) : pat[i] = "." \/ LowerChar(pat[i]) = LowerChar(s[off + i])

RegexSearch(pat, s) ==
    \E off \in 0..(Len(s) - Len(pat)) : RegexMatchesAt(pat, s, off)

----------------------------------------------------------------------------
(* FootballStatsRetriever *)

StatColumns ==
    [goals |-> "Gls", assists |-> "Ast", expected_goals |-> "xG",
     possession |-> "Poss", yellow_cards |-> "CrdY", red_cards |-> "CrdR"]

\* RateStats with the possession and card stats taken as rates too: what
\* C11 rests on.
RateStatsAll ==
    {"goals", "assists", "expected_goals", "possession", "yellow_cards", "red_cards"}

RateStats == {"goals", "assists", "expected_goals"}

\* CleanMinutes without replace(',', ''): what C6 rests on.
CleanMinutesKeepCommas(minutes_str) ==
    IF minutes_str.t \in {"int", "float"}
    THEN Return(PyIntOfNumber(minutes_str))
    ELSE IF minutes_str.t = "str"
    THEN PyIntOfStr(minutes_str.s.arg)
    ELSE Raise(InvalidLiteralMsg(<<"N","o","n","e">>))

CleanMinutes(minutes_str) ==
    IF minutes_str.t \in {"int", "float"}
    THEN Return(PyIntOfNumber(minutes_str))
    ELSE IF minutes_str.t = "str"
    THEN PyIntOfStr(RemoveCommas(minutes_str.s.arg))
    ELSE Raise(InvalidLiteralMsg(<<"N","o","n","e">>))

RowCacheKey(team_name) == [prefix |-> "team_row_", name |-> team_name]

SquadList(rows) == [i \in 1..Len(rows) |-> rows[i].Squad]

\* TeamMatches with the exact step left out: what C2 rests on.
TeamMatchesNone(rows, team_name) == SelectSeq(rows, LAMBDA r : FALSE)

\* TeamMatches comparing without str.lower(): what C5 rests on.
TeamMatchesCaseSensitive(rows, team_name) ==
    SelectSeq(rows, LAMBDA r : r.Squad = team_name)

TeamMatches(rows, team_name) ==
    SelectSeq(rows, LAMBDA r : Lower(r.Squad) = Lower(team_name))

PartialMatches(rows, team_name) ==
    SelectSeq(rows, LAMBDA r : RegexSearch(team_name, r.Squad))

\* _get_team_row: the outcome and the cache it leaves.
GetTeamRow(rows, cache, team_name) ==
    LET cache_key == RowCacheKey(team_name)
        found(team_row) ==
            [out |-> Return(team_row), cache |-> (cache_key :> team_row) @@ cache]
        fails(text) == [out |-> Raise(text), cache |-> cache]
    IN  IF cache_key \in DOMAIN cache
        THEN [out |-> Return(cache[cache_key]), cache |-> cache]
        ELSE LET team_matches == TeamMatches(rows, team_name)
             IN  IF team_matches = <<>>
                 THEN IF ~RegexCompiles(team_name)
                      THEN fails(UnterminatedGroupMsg(RegexErrorPosition(team_name)))
                      ELSE LET partial_matches == PartialMatches(rows, team_name)
                           IN  IF partial_matches = <<>>
                               THEN fails(TeamNotFoundMsg(team_name, SquadList(rows)))
                               ELSE IF Len(partial_matches) > 1
                               THEN fails(MultipleTeamsMsg(team_name,
                                                           SquadList(partial_matches)))
                               ELSE found(partial_matches[1])
                 ELSE found(team_matches[1])

\* round(x, 2) of x = n / d, in hundredths: to nearest.  On an exact tie the
\* binary float decides in Python; no table here produces one.
RoundDiv(n, d) ==
    LET q == n \div d
        r == n % d
    IN  IF 2 * r < d THEN q
        ELSE IF 2 * r > d THEN q + 1
        ELSE IF q % 2 = 0 THEN q ELSE q + 1

CalculatePer90(value, minutes) ==
    IF minutes <= 0 THEN Return(PyFloat(0))
    ELSE IF value.t = "NoneType" THEN Raise(NoneOperandMsg)
    ELSE Return(PyFloat(RoundDiv(value.h * 90, minutes)))

\* CatchAsStr with the except clause left out: what C9 rests on.
CatchNothing(out) == out

\* except Exception as e: return str(e)
CatchAsStr(out) == IF out.exc THEN Return(PyStr(out.err)) ELSE out

\* The try block of get_stat.
GetStatBody(rows, cache, team_name, stat_type, per_90) ==
    LET r == GetTeamRow(rows, cache, team_name)
    IN  IF r.out.exc THEN r
        ELSE IF stat_type \notin DOMAIN StatColumns
        THEN [out |-> Raise(UnknownStatMsg(stat_type)), cache |-> r.cache]
        ELSE LET row == r.out.val
                 column == StatColumns[stat_type]
                 value == row[column]
             IN  IF value.t = "NoneType"
                 THEN [out |-> Raise(ColumnNotFoundMsg(column)), cache |-> r.cache]
                 ELSE IF per_90 /\ stat_type \in RateStats
                 THEN LET minutes == CleanMinutes(row.Min)
                      IN  [out |-> IF minutes.exc THEN minutes
                                   ELSE CalculatePer90(value, minutes.val),
                           cache |-> r.cache]
                 ELSE [out |-> Return(value), cache |-> r.cache]

GetStat(rows, cache, team_name, stat_type, per_90) ==
    LET b == GetStatBody(rows, cache, team_name, stat_type, per_90)
    IN  [out |-> CatchAsStr(b.out), cache |-> b.cache]

\* except Exception as e: return {'error': str(e)}
CatchAsErrorDict(out) ==
    IF out.exc THEN Return([error |-> PyStr(out.err)]) ELSE out

\* The try block of get_team_summary.
GetTeamSummaryBody(rows, cache, team_name) ==
    LET r == GetTeamRow(rows, cache, team_name)
    IN  IF r.out.exc THEN r
        ELSE LET row == r.out.val
                 minutes == CleanMinutes(row.Min)
                 goals_per_90 == CalculatePer90(row.Gls, minutes.val)
                 assists_per_90 == CalculatePer90(row.Ast, minutes.val)
                 expected_goals_per_90 == CalculatePer90(row.xG, minutes.val)
             IN  [cache |-> r.cache,
                  out |->
                    IF minutes.exc THEN minutes
                    ELSE IF goals_per_90.exc THEN goals_per_90
                    ELSE IF assists_per_90.exc THEN assists_per_90
                    ELSE IF expected_goals_per_90.exc THEN expected_goals_per_90
                    ELSE Return([team |-> row.Squad,
                                 goals |-> row.Gls,
                                 goals_per_90 |-> goals_per_90.val,
                                 assists |-> row.Ast,
                                 assists_per_90 |-> assists_per_90.val,
                                 expected_goals |-> row.xG,
                                 expected_goals_per_90 |-> expected_goals_per_90.val,
                                 possession |-> row.Poss,
                                 yellow_cards |-> row.CrdY,
                                 red_cards |-> row.CrdR,
                                 minutes_played |-> minutes.val])]

GetTeamSummary(rows, cache, team_name) ==
    LET b == GetTeamSummaryBody(rows, cache, team_name)
    IN  [out |-> CatchAsErrorDict(b.out), cache |-> b.cache]

----------------------------------------------------------------------------
(* StatsAssistant and the session cache *)

\* The keys of stat_mapping, in the order the dictionary lists them.
StatMappingKeys ==
    << <<"t","o","t","a","l"," ","g","o","a","l","s">>,
       <<"g","o","a","l","s"," ","p","e","r"," ","9","0">>,
       <<"t","o","t","a","l"," ","a","s","s","i","s","t","s">>,
       <<"a","s","s","i","s","t","s"," ","p","e","r"," ","9","0">>,
       <<"p","o","s","s","e","s","s","i","o","n">>,
       <<"e","x","p","e","c","t","e","d"," ","g","o","a","l","s">>,
       <<"e","x","p","e","c","t","e","d"," ","g","o","a","l","s"," ","p","e","r"," ","9","0">>,
       <<"y","e","l","l","o","w"," ","c","a","r","d","s">>,
       <<"r","e","d"," ","c","a","r","d","s">> >>

\* stat_mapping[key] = (stat_type, per_90), in the same order.
StatMappingValues ==
    << <<"goals", FALSE>>,
       <<"goals", TRUE>>,
       <<"assists", FALSE>>,
       <<"assists", TRUE>>,
       <<"possession", FALSE>>,
       <<"expected_goals", FALSE>>,
       <<"expected_goals", TRUE>>,
       <<"yellow_cards", FALSE>>,
       <<"red_cards", FALSE>> >>

Unknown == <<"u","n","k","n","o","w","n">>

InStatMapping(stat_intent) ==
    \E i \in DOMAIN StatMappingKeys : StatMappingKeys[i] = stat_intent

StatMappingOf(stat_intent) ==
    StatMappingValues[CHOOSE i \in DOMAIN StatMappingKeys :
                          StatMappingKeys[i] = stat_intent]

SorryMsg ==
    Text("Sorry, I can only answer questions about: {}", <<>>, StatMappingKeys, "", 0)

ErrorRetrievingMsg(text) == [text EXCEPT !.prefix = "Error retrieving data: "]

\* hash(question): an integer key; the key space is wider than the pool of
\* questions, as Python's 64-bit hash is for any realistic set of questions.
Hash(question) == question % HashSpace

ClassifyKey(question) == [prefix |-> "classify_", hash |-> Hash(question)]

\* ClassifyReply answering a fault with an intent: what C7 rests on.
ClassifyReplyFaultAsGoals(content, fault) ==
    IF fault THEN StatMappingKeys[1] ELSE Lower(Strip(content))

\* _classify: the reply's content stripped and lower-cased, "unknown" when the
\* call faults.
ClassifyReply(content, fault) ==
    IF fault THEN Unknown ELSE Lower(Strip(content))

\* get_cached_llm_response: llm_function is called only on a miss; `response'
\* is what it returns when called.
GetCachedLLMResponse(cache, cache_key, response) ==
    IF cache_key \in DOMAIN cache
    THEN [response |-> cache[cache_key], cache |-> cache, hit |-> TRUE]
    ELSE [response |-> response, cache |-> (cache_key :> response) @@ cache,
          hit |-> FALSE]

ClassifyQuestion(cache, replies, question, fault) ==
    GetCachedLLMResponse(cache, ClassifyKey(question),
                         ClassifyReply(replies[question], fault))

\* The pair route_question returns.
Pair(field, value) == [field |-> field, value |-> value]

\* return None, "Sorry, I can only answer questions about: ..."
CannotAnswer(stat_intent) == Pair(PyNone, PyStr(SorryMsg))

\* route_question: the pair returned, both caches as it leaves them, the
\* intent it classified the question to and the number of get_stat calls.
RouteQuestion(rows, rcache, lcache, replies, question, team_name, fault) ==
    LET c == ClassifyQuestion(lcache, replies, question, fault)
        stat_intent == c.response
    IN  IF InStatMapping(stat_intent)
        THEN LET m == StatMappingOf(stat_intent)
                 g == GetStat(rows, rcache, team_name, m[1], m[2])
             IN  [ret |-> IF g.out.exc
                          THEN Pair(PyNone, PyStr(ErrorRetrievingMsg(g.out.err)))
                          ELSE Pair(PyStr(Chars(stat_intent)), g.out.val),
                  llm_cache |-> c.cache, row_cache |-> g.cache,
                  stat_intent |-> stat_intent, hit |-> c.hit, get_stat_calls |-> 1]
        ELSE [ret |-> CannotAnswer(stat_intent),
              llm_cache |-> c.cache, row_cache |-> rcache,
              stat_intent |-> stat_intent, hit |-> c.hit, get_stat_calls |-> 0]

----------------------------------------------------------------------------
(* The inputs: season tables, team names asked for, stat types, questions *)

NameMan == <<"M","a","n">>

NameMANUpper == <<"M","A","N">>

NameManU == <<"M","a","n","(","U">>

NameManC == <<"M","a","n","(","C">>

NameArs == <<"A","r","s">>

NameLee == <<"L","e","e">>

NameAn == <<"a","n">>

NameDot == <<"M",".","n">>

NameParen == <<"(">>

NameXyz == <<"x","y","z">>

Row(squad, gls, ast, xg, poss, crdy, crdr, min) ==
    [Squad |-> squad, Gls |-> PyInt(gls), Ast |-> PyInt(ast), xG |-> PyFloat(xg),
     Poss |-> PyFloat(poss), CrdY |-> PyInt(crdy), CrdR |-> PyInt(crdr),
     Min |-> min]

\* Gls 64 in "3,420" minutes; a name differing only in case; minutes as a
\* number; minutes that are not a number; negative minutes; no minutes.
RowMan == Row(NameMan, 64, 47, 5530, 6120, 70, 2, PyStr(Chars(<<"3",",","4","2","0">>)))

RowMANUpper == Row(NameMANUpper, 10, 5, 1220, 4000, 60, 1, PyInt(3000))

RowManU == Row(NameManU, 72, 50, 6010, 5530, 80, 3, PyInt(3420))

RowManC == Row(NameManC, 30, 20, 3330, 4500, 90, 5, PyStr(Chars(<<"3","x">>)))

RowArs == Row(NameArs, 40, 25, 4440, 5000, 85, 4, PyStr(Chars(<<"-","9","0">>)))

RowLee == Row(NameLee, 12, 7, 1510, 4210, 66, 0, PyStr(Chars(<<"0">>)))

\* Team resolution: tables of one to MaxTeams rows out of RowPool, one row
\* per team name, and the names asked for: every pool name, its lower-case
\* form, a shared fragment, a pattern with '.', an unclosed '(' and a name of
\* no team.
RowPool == {RowMan, RowMANUpper, RowManU, RowManC}

Datasets ==
    UNION {{t \in [1..n -> RowPool] : \A i, j \in 1..n : i # j => t[i] # t[j]} :
           n \in 1..MaxTeams}

QueryPool ==
    {r.Squad : r \in RowPool} \cup {Lower(r.Squad) : r \in RowPool}
    \cup {NameAn, NameDot, NameParen, NameXyz}

\* Statistics: one table with every kind of minutes text, every stat type and
\* one that stat_columns lacks.
StatTable == <<RowMan, RowManU, RowManC, RowArs, RowLee>>

StatTeams == {NameMan, NameManU, NameManC, NameArs, NameLee, NameAn, NameXyz}

StatTypePool == DOMAIN StatColumns \cup {"shots"}

\* Sessions of the assistant.
SessionTable == <<RowMan, RowManU, RowManC>>

SessionTeams == {NameMan, NameManC, NameXyz}

SessionStatTypes == {"goals"}

Questions == 1..NumQuestions

\* Contents the classifier replies with.
Replies ==
    << <<"t","o","t","a","l"," ","g","o","a","l","s">>,
       <<"g","o","a","l","s"," ","p","e","r"," ","9","0">>,
       <<"t","o","t","a","l"," ","a","s","s","i","s","t","s">>,
       <<"a","s","s","i","s","t","s"," ","p","e","r"," ","9","0">>,
       <<"p","o","s","s","e","s","s","i","o","n">>,
       <<"e","x","p","e","c","t","e","d"," ","g","o","a","l","s">>,
       <<"e","x","p","e","c","t","e","d"," ","g","o","a","l","s"," ","p","e","r"," ","9","0">>,
       <<"y","e","l","l","o","w"," ","c","a","r","d","s">>,
       <<"r","e","d"," ","c","a","r","d","s">>,
       <<"u","n","k","n","o","w","n">>,
       <<" ","T","o","t","a","l"," ","G","o","a","l","s"," ">>,
       <<"n","o","t"," ","s","u","r","e">> >>

\* Classifiers: question q is answered with the (q + shift)-th reply.
ClassifierAt(shift) ==
    [q \in Questions |-> Replies[((q + shift) % Len(Replies)) + 1]]

Classifiers == {ClassifierAt(shift) : shift \in 0..(Len(Replies) - 1)}

----------------------------------------------------------------------------
(* State machine *)

NoCache == <<>>

Init ==
    /\ df = SessionTable
    /\ classifier \in Classifiers
    /\ llm_cache = NoCache
    /\ row_cache = NoCache
    /\ last = [op |-> "none"]

InitResolve ==
    /\ df \in Datasets
    /\ classifier = ClassifierAt(0)
    /\ llm_cache = NoCache
    /\ row_cache = NoCache
    /\ last = [op |-> "none"]

InitStat ==
    /\ df = StatTable
    /\ classifier = ClassifierAt(0)
    /\ llm_cache = NoCache
    /\ row_cache = NoCache
    /\ last = [op |-> "none"]

\* retriever._get_team_row(team_name)
GetTeamRowCall(team_name) ==
    \E r \in {GetTeamRow(df, row_cache, team_name)} :
        /\ row_cache' = r.cache
        /\ last' = [op |-> "_get_team_row", team_name |-> team_name, out |-> r.out]
        /\ UNCHANGED <<df, classifier, llm_cache>>

\* retriever.get_stat(team_name, stat_type, per_90)
GetStatCall(team_name, stat_type, per_90) ==
    \E r \in {GetStat(df, row_cache, team_name, stat_type, per_90)} :
        /\ row_cache' = r.cache
        /\ last' = [op |-> "get_stat", team_name |-> team_name,
                    stat_type |-> stat_type, per_90 |-> per_90, out |-> r.out]
        /\ UNCHANGED <<df, classifier, llm_cache>>

\* retriever.get_team_summary(team_name)
GetTeamSummaryCall(team_name) ==
    \E r \in {GetTeamSummary(df, row_cache, team_name)} :
        /\ row_cache' = r.cache
        /\ last' = [op |-> "get_team_summary", team_name |-> team_name,
                    out |-> r.out]
        /\ UNCHANGED <<df, classifier, llm_cache>>

\* assistant.route_question(question, team_name); `fault' says whether a call
\* of the classifier made now would fault.
RouteQuestionCall(question, team_name, fault) ==
    \E r \in {RouteQuestion(df, row_cache, llm_cache, classifier, question,
                           team_name, fault)} :
        /\ row_cache' = r.row_cache
        /\ llm_cache' = r.llm_cache
        /\ last' = [op |-> "route_question", question |-> question,
                    team_name |-> team_name, fault |-> fault, ret |-> r.ret,
                    stat_intent |-> r.stat_intent, hit |-> r.hit,
                    get_stat_calls |-> r.get_stat_calls]
        /\ UNCHANGED <<df, classifier>>

\* The Clear Cache button: st.session_state.llm_cache.clear()
ClearCache ==
    /\ llm_cache' = NoCache
    /\ last' = [op |-> "clear_cache"]
    /\ UNCHANGED <<df, classifier, row_cache>>

Next ==
    \/ \E question \in Questions, team_name \in SessionTeams, fault \in BOOLEAN :
          RouteQuestionCall(question, team_name, fault)
    \/ ClearCache
    \/ \E team_name \in SessionTeams, stat_type \in SessionStatTypes,
          per_90 \in BOOLEAN : GetStatCall(team_name, stat_type, per_90)
    \/ \E team_name \in SessionTeams : GetTeamSummaryCall(team_name)

Spec == Init /\ [][Next]_vars

NextResolve == \E team_name \in QueryPool : GetTeamRowCall(team_name)

SpecResolve == InitResolve /\ [][NextResolve]_vars

NextStat ==
    \/ \E team_name \in StatTeams, stat_type \in StatTypePool, per_90 \in BOOLEAN :
          GetStatCall(team_name, stat_type, per_90)
    \/ \E team_name \in StatTeams : GetTeamSummaryCall(team_name)

SpecStat == InitStat /\ [][NextStat]_vars

----------------------------------------------------------------------------
(* Vocabulary of the properties *)

\* name contains q as a substring, ignoring case.
ContainsIgnoringCase(name, q) ==
    \E off \in 0..(Len(name) - Len(q)) :
        \A i \in 1..Len(q) : LowerChar(name[off + i]) = LowerChar(q[i])

\* The rows whose name equals q ignoring case, and those whose name contains it.
ExactRows(q) == {i \in 1..Len(df) : Lower(df[i].Squad) = Lower(q)}

ContainingRows(q) == {i \in 1..Len(df) : ContainsIgnoringCase(df[i].Squad, q)}

ContainingSeq(q) == SelectSeq(df, LAMBDA r : ContainsIgnoringCase(r.Squad, q))

Names(text) == {text.names[i] : i \in 1..Len(text.names)}

IsNotFound(out, q) == out.exc /\ out.err = TeamNotFoundMsg(q, SquadList(df))

IsAmbiguous(out) == out.exc /\ out.err.kind = MultipleTeamsMsg(<<>>, <<>>).kind

NamesDistinctIgnoringCase ==
    \A i, j \in 1..Len(df) : i # j => Lower(df[i].Squad) # Lower(df[j].Squad)

Resolved == last.op = "_get_team_row"

----------------------------------------------------------------------------
(* Properties of team resolution, under SpecResolve *)

\* C2: whenever some team's name equals the name asked for ignoring case,
\* _get_team_row returns the row of such a team (the first of them), whatever
\* other names contain the name asked for.
C2_ExactBeforePartial ==
    (Resolved /\ ExactRows(last.team_name) # {}) =>
        /\ ~last.out.exc
        /\ \E i \in ExactRows(last.team_name) :
              /\ last.out.val = df[i]
              /\ \A j \in ExactRows(last.team_name) : i <= j

\* C2, its case: a name that is one team's whole name and a fragment of
\* another team's name has been resolved.
C2_Witness ==
    /\ Resolved
    /\ ExactRows(last.team_name) # {}
    /\ ContainingRows(last.team_name) \ ExactRows(last.team_name) # {}
    /\ ~last.out.exc

\* C3: with no name equal to the name asked for ignoring case, the outcome
\* follows the number of names containing it: none, NotFound naming every
\* team; one, that row; more, Ambiguous naming exactly those teams.
C3_OutcomeByContainingNames ==
    (Resolved /\ ExactRows(last.team_name) = {}) =>
        LET q == last.team_name
            matching == ContainingSeq(q)
        IN  /\ Len(matching) = 0 => IsNotFound(last.out, q)
            /\ Len(matching) = 1 => ~last.out.exc /\ last.out.val = matching[1]
            /\ Len(matching) > 1 =>
                  /\ last.out.exc
                  /\ last.out.err = MultipleTeamsMsg(q, SquadList(matching))

\* C4: when two teams' names share the name asked for as a fragment (and it
\* is no team's whole name, which C2 resolves first), the outcome is
\* Ambiguous and names both teams.
C4_SharedFragmentAmbiguous ==
    (Resolved /\ ExactRows(last.team_name) = {}) =>
        \A i, j \in ContainingRows(last.team_name) :
            i # j => /\ IsAmbiguous(last.out)
                     /\ {df[i].Squad, df[j].Squad} \subseteq Names(last.out.err)

\* C5 as stated: every team's exact name, and its lower-case form, resolve to
\* that team's row (names being distinct).
C5_NameAndLowerCaseResolve ==
    Resolved =>
        \A i \in 1..Len(df) :
            last.team_name \in {df[i].Squad, Lower(df[i].Squad)} =>
                ~last.out.exc /\ last.out.val = df[i]

\* C5: in a table whose names are distinct even when case is ignored, every
\* team's exact name, and its lower-case form, resolve to that team's row.
C5_NameAndLowerCaseResolveDistinct ==
    NamesDistinctIgnoringCase => C5_NameAndLowerCaseResolve

\* C5, its case: in such a table of two or more teams, the lower-case form of
\* a name that is not itself lower-case has been resolved.
C5_Witness ==
    /\ Resolved
    /\ NamesDistinctIgnoringCase
    /\ Len(df) > 1
    /\ \E i \in 1..Len(df) :
          /\ last.team_name = Lower(df[i].Squad)
          /\ last.team_name # df[i].Squad
          /\ last.out = Return(df[i])

----------------------------------------------------------------------------
(* Properties of get_stat, under SpecStat *)

StatAsked == last.op = "get_stat"

\* The row whose name is exactly the name asked for, if any.
RowsNamed(name) == {i \in 1..Len(df) : df[i].Squad = name}

\* A numeral with comma grouping: digits and commas, at least one digit, with
\* an optional leading minus sign.
IsGroupedNumeral(chars) ==
    LET body == IF chars # <<>> /\ Head(chars) = "-" THEN Tail(chars) ELSE chars
    IN  /\ \A i \in 1..Len(body) : IsDigit(body[i]) \/ body[i] = ","
        /\ \E i \in 1..Len(body) : IsDigit(body[i])

RECURSIVE GroupedValue(_, _)
GroupedValue(chars, acc) ==
    IF chars = <<>> THEN acc
    ELSE IF Head(chars) = "," THEN GroupedValue(Tail(chars), acc)
    ELSE GroupedValue(Tail(chars), 10 * acc + DigitVal(Head(chars)))

\* Whether a row's minutes played are a number, and which.
HasMinutes(row) ==
    row.Min.t = "int" \/ (row.Min.t = "str" /\ IsGroupedNumeral(row.Min.s.arg))

MinutesOf(row) ==
    IF row.Min.t = "int" THEN row.Min.h \div 100
    ELSE IF Head(row.Min.s.arg) = "-"
    THEN 0 - GroupedValue(Tail(row.Min.s.arg), 0)
    ELSE GroupedValue(row.Min.s.arg, 0)

\* h hundredths is n / d rounded to two decimal places.
IsRounded(h, n, d) == 2 * h * d - 2 * n <= d /\ 2 * n - 2 * h * d <= d

\* C6: for a team named exactly and a rate-eligible stat, get_stat with
\* per_90 returns raw / minutes * 90 rounded to two places when the minutes
\* (commas stripped) are positive and 0 when they are not, without an error;
\* Gls 64 in "3,420" minutes gives 1.68.
C6_Per90 ==
    (StatAsked /\ last.per_90 /\ last.stat_type \in RateStats) =>
        /\ \A i \in RowsNamed(last.team_name) :
              HasMinutes(df[i]) =>
                  LET raw == df[i][StatColumns[last.stat_type]]
                      minutes == MinutesOf(df[i])
                  IN  /\ ~last.out.exc
                      /\ last.out.val.t = "float"
                      /\ IF minutes > 0
                         THEN IsRounded(last.out.val.h, raw.h * 90, minutes)
                         ELSE last.out.val.h = 0
        /\ (last.team_name = NameMan /\ last.stat_type = "goals") =>
              last.out = Return(PyFloat(168))

\* C6, its cases: a per-90 value of a team whose minutes are text with a
\* comma has been returned, and it is not 0.
C6_Witness ==
    /\ StatAsked /\ last.per_90 /\ last.stat_type \in RateStats
    /\ \E i \in RowsNamed(last.team_name) :
          /\ df[i].Min.t = "str" /\ HasMinutes(df[i]) /\ MinutesOf(df[i]) > 999
          /\ \E j \in 1..Len(df[i].Min.s.arg) : df[i].Min.s.arg[j] = ","
    /\ ~last.out.exc /\ last.out.val.t = "float" /\ last.out.val.h > 0

\* Whether a message names a team, and the minutes-played field.
MessageNamesTeam(text, squad) == text.arg = squad \/ squad \in Names(text)

MessageNamesMinutes(text) == text.lit = "Min"

\* C8: a per-90 request for a team whose minutes text is no number returns an
\* error message that names the team and the minutes-played field.
C8_MalformedMinutesMessage ==
    (StatAsked /\ last.per_90 /\ last.stat_type \in RateStats) =>
        \A i \in RowsNamed(last.team_name) :
            ~HasMinutes(df[i]) =>
                /\ ~last.out.exc
                /\ last.out.val.t = "str"
                /\ MessageNamesTeam(last.out.val.s, df[i].Squad)
                /\ MessageNamesMinutes(last.out.val.s)

\* The lookup failures: no team of that name, several teams, no such stat.
TeamNotFound(q) == ExactRows(q) = {} /\ ContainingRows(q) = {}

TeamAmbiguous(q) == ExactRows(q) = {} /\ Cardinality(ContainingRows(q)) > 1

UnknownStat(stat_type) ==
    stat_type \notin {"goals", "assists", "expected_goals", "possession",
                      "yellow_cards", "red_cards"}

\* Whether a per-90 request meets minutes that are no number.
MinutesMalformed(q, stat_type, per_90) ==
    /\ per_90 /\ stat_type \in RateStats
    /\ \E i \in ExactRows(q) \cup ContainingRows(q) : ~HasMinutes(df[i])

NonRateStats == {"possession", "yellow_cards", "red_cards"}

\* The table with every row's minutes played replaced by m.
WithMinutes(rows, m) == [i \in 1..Len(rows) |-> [rows[i] EXCEPT !.Min = m]]

\* C11: for a team of the table named exactly and a stat with no per-90 form
\* (possession, yellow cards, red cards), get_stat with per_90 returns the
\* raw column value, the same as without per_90, without an error, and
\* whatever the minutes played are: a table whose minutes are missing gives
\* the same result.
C11_Per90Ignored ==
    (StatAsked /\ last.per_90 /\ last.stat_type \in NonRateStats) =>
        \A i \in RowsNamed(last.team_name) :
            /\ last.out = Return(df[i][StatColumns[last.stat_type]])
            /\ last.out.val.t \in {"int", "float"}
            /\ last.out = GetStat(df, NoCache, last.team_name,
                                  last.stat_type, FALSE).out
            /\ last.out = GetStat(WithMinutes(df, PyNone), NoCache, last.team_name,
                                  last.stat_type, TRUE).out

\* C11, its case: possession has been asked per 90 for a team whose minutes
\* played are no number, and the raw possession came back.
C11_Witness ==
    /\ StatAsked /\ last.per_90 /\ last.stat_type = "possession"
    /\ \E i \in RowsNamed(last.team_name) :
          /\ ~HasMinutes(df[i])
          /\ last.out = Return(df[i].Poss)

----------------------------------------------------------------------------
(* Properties of route_question, under Spec *)

Routed == last.op = "route_question"

\* Whether the retrieval route_question asks for fails: the try block of
\* get_stat raises for the stat the intent maps to.
RetrievalFails(stat_intent, team_name) ==
    GetStatBody(df, NoCache, team_name, StatMappingOf(stat_intent)[1],
                StatMappingOf(stat_intent)[2]).out.exc

\* C1: for a question classified to a supported intent and a team for which
\* retrieval fails, route_question returns None paired with an error message.
C1_RetrievalErrorGivesNone ==
    (/\ Routed
     /\ InStatMapping(last.stat_intent)
     /\ RetrievalFails(last.stat_intent, last.team_name)) =>
        last.ret.field = PyNone /\ last.ret.value.t = "str"

\* Replies that name no supported intent.
UnsupportedReplies == {Replies[i] : i \in {10, 12}}

\* C7: when the classification is none of the nine supported intents (a
\* fresh reply that is "unknown" or other text, a fault, or such a cached
\* classification), route_question returns None with the message listing the
\* nine intents and does not call get_stat.
C7_UnsupportedGivesSorry ==
    (/\ Routed
     /\ \/ last.stat_intent \notin {StatMappingKeys[i] : i \in 1..9}
        \/ ~last.hit /\ last.fault
        \/ ~last.hit /\ classifier[last.question] \in UnsupportedReplies) =>
        /\ last.ret.field = PyNone
        /\ last.ret.value.t = "str"
        /\ last.ret.value.s.kind = "Sorry, I can only answer questions about: {}"
        /\ last.ret.value.s.names = StatMappingKeys
        /\ Len(last.ret.value.s.names) = 9
        /\ last.get_stat_calls = 0

\* C7, its case: the classifier faulted on a question it answers with a
\* supported intent, and the question was not in the cache.
C7_Witness ==
    /\ Routed
    /\ ~last.hit /\ last.fault
    /\ InStatMapping(Lower(Strip(classifier[last.question])))
    /\ last.ret = Pair(PyNone, PyStr(SorryMsg))

\* C10: what route_question returns, when the classifier would answer a
\* call made now, is what it returns with an empty classification cache and
\* an empty team-row cache, whatever calls and Clear Cache actions came
\* before, an earlier faulted classification of the same question included.
C10_ColdEqualsWarm ==
    (Routed /\ ~last.fault) =>
        last.ret = RouteQuestion(df, NoCache, NoCache, classifier, last.question,
                                 last.team_name, FALSE).ret

====
